---- MODULE Spec2Model ----
(***************************************************************************)
(* Model of the waiver application:                                        *)
(*   src/src/app/api/waiver/route.ts  - the POST ingestion handler         *)
(*   src/src/app/waiver/page.tsx      - the signature pad and ink detector *)
(*                                                                         *)
(* JavaScript strings are sequences of one-character strings, so that      *)
(* startsWith, split, slice, atob and template literals are computed the   *)
(* way the code computes them.  A JavaScript value is a record             *)
(* [t |-> type tag, s |-> its string form].                                *)
(***************************************************************************)
EXTENDS Integers, Sequences, FiniteSets, TLC

(***************************************************************************)
(* Bounds                                                                  *)
(***************************************************************************)
\* largest value of the wall clock (Date.now / new Date)
MaxClock == 2

\* largest number of stroke() calls between two resets of the signature surface
MaxSegs == 2

\* longest ID photo tried, in bytes
MaxBytes == 3

\* submit events followed on one page
MaxSubmits == 2

(***************************************************************************)
(* JavaScript values                                                       *)
(***************************************************************************)
JsUndef == [t |-> "undef", s |-> <<>>]

JsNull == [t |-> "null", s |-> <<>>]

JsStr(s) == [t |-> "str", s |-> s]

JsNum(s) == [t |-> "num", s |-> s]

JsTrue == [t |-> "bool", s |-> <<"t", "r", "u", "e">>]

JsFalse == [t |-> "bool", s |-> <<"f", "a", "l", "s", "e">>]

\* ToBoolean: the test made by !x, x || y and if (x)
Truthy(v) ==
  CASE v.t = "undef" -> FALSE
    [] v.t = "null" -> FALSE
    [] v.t = "str" -> v.s # <<>>
    [] v.t = "num" -> v.s # <<"0">>
    [] OTHER -> v = JsTrue

\* a ?? null
OrNull(v) == IF v.t = "undef" THEN JsNull ELSE v

\* ToString: what a template literal `${v}` inserts
ToStr(v) ==
  CASE v.t = "undef" -> <<"u", "n", "d", "e", "f", "i", "n", "e", "d">>
    [] v.t = "null" -> <<"n", "u", "l", "l">>
    [] OTHER -> v.s

Digit(d) == <<"0", "1", "2", "3", "4", "5", "6", "7", "8", "9">>[d + 1]

RECURSIVE Dec(_)
\* decimal form of a non-negative integer
Dec(n) == IF n < 10 THEN <<Digit(n)>> ELSE Dec(n \div 10) \o <<Digit(n % 10)>>

(***************************************************************************)
(* String primitives (0-based indices, as in JavaScript)                   *)
(***************************************************************************)
\* s.indexOf(c): -1 when c does not occur
IndexOf(s, c) ==
  IF \E i \in 1..Len(s) : s[i] = c
  THEN (CHOOSE i \in 1..Len(s) : s[i] = c /\ \A j \in 1..(i - 1) : s[j] # c) - 1
  ELSE -1

\* s.slice(a, b): a negative index counts from the end
Slice(s, a, b) ==
  LET n == Len(s)
      from == IF a < 0 THEN (IF n + a < 0 THEN 0 ELSE n + a) ELSE (IF a > n THEN n ELSE a)
      to == IF b < 0 THEN (IF n + b < 0 THEN 0 ELSE n + b) ELSE (IF b > n THEN n ELSE b)
  IN IF to <= from THEN <<>> ELSE SubSeq(s, from + 1, to)

\* s.startsWith(p)
StartsWith(s, p) == Len(s) >= Len(p) /\ SubSeq(s, 1, Len(p)) = p

\* s.split(c)[0]
SplitFirst(s, c) ==
  IF IndexOf(s, c) = -1 THEN s ELSE Slice(s, 0, IndexOf(s, c))

\* s.split(c)[1]: undefined when s holds no c
SplitSecond(s, c) ==
  IF IndexOf(s, c) = -1 THEN JsUndef
  ELSE LET rest == Slice(s, IndexOf(s, c) + 1, Len(s))
       IN JsStr(SplitFirst(rest, c))

(***************************************************************************)
(* atob: the forgiving-base64 decode of the platform                       *)
(***************************************************************************)
B64Chars ==
  <<"A", "B", "C", "D", "E", "F", "G", "H", "I", "J", "K", "L", "M",
    "N", "O", "P", "Q", "R", "S", "T", "U", "V", "W", "X", "Y", "Z",
    "a", "b", "c", "d", "e", "f", "g", "h", "i", "j", "k", "l", "m",
    "n", "o", "p", "q", "r", "s", "t", "u", "v", "w", "x", "y", "z",
    "0", "1", "2", "3", "4", "5", "6", "7", "8", "9", "+", "/">>

IsB64(c) == \E i \in 1..64 : B64Chars[i] = c

B64Val(c) == (CHOOSE i \in 1..64 : B64Chars[i] = c) - 1

\* trailing padding is dropped only when the length is a multiple of four
StripPad(s) ==
  IF Len(s) % 4 = 0 /\ Len(s) > 0 /\ s[Len(s)] = "="
  THEN IF s[Len(s) - 1] = "=" THEN Slice(s, 0, Len(s) - 2) ELSE Slice(s, 0, Len(s) - 1)
  ELSE s

RECURSIVE B64Decode(_)
\* bytes of a padding-free string of alphabet characters, length % 4 # 1
B64Decode(s) ==
  IF Len(s) = 0 THEN <<>>
  ELSE IF Len(s) >= 4
  THEN LET n == B64Val(s[1]) * 262144 + B64Val(s[2]) * 4096 + B64Val(s[3]) * 64 + B64Val(s[4])
       IN <<n \div 65536, (n \div 256) % 256, n % 256>> \o B64Decode(Slice(s, 4, Len(s)))
  ELSE IF Len(s) = 3
  THEN LET n == B64Val(s[1]) * 4096 + B64Val(s[2]) * 64 + B64Val(s[3])
       IN <<n \div 1024, (n \div 4) % 256>>
  ELSE LET n == B64Val(s[1]) * 64 + B64Val(s[2])
       IN <<n \div 16>>

\* atob(v): v is converted to a string first; a failure is a thrown exception
atob(v) ==
  LET data == StripPad(ToStr(v))
  IN IF Len(data) % 4 = 1 \/ \E i \in 1..Len(data) : ~IsB64(data[i])
     THEN [threw |-> TRUE, bin |-> <<>>]
     ELSE [threw |-> FALSE, bin |-> B64Decode(data)]

(***************************************************************************)
(* dataUrlToBytes                                                          *)
(***************************************************************************)
DataPrefix == <<"d", "a", "t", "a", ":">>

\* result kinds: "null" (treated as not provided), "threw", "value"
dataUrlToBytes(dataUrl) ==
  IF ~Truthy(dataUrl)
  THEN [kind |-> "null", bytes |-> <<>>, mime |-> <<>>]
  ELSE IF dataUrl.t # "str"
  THEN [kind |-> "threw", bytes |-> <<>>, mime |-> <<>>]
  ELSE IF ~StartsWith(dataUrl.s, DataPrefix)
  THEN [kind |-> "null", bytes |-> <<>>, mime |-> <<>>]
  ELSE LET meta == SplitFirst(dataUrl.s, ",")
           b64 == SplitSecond(dataUrl.s, ",")
           mime == Slice(meta, 5, IndexOf(meta, ";"))
           dec == atob(b64)
       IN IF dec.threw
          THEN [kind |-> "threw", bytes |-> <<>>, mime |-> <<>>]
          ELSE [kind |-> "value", bytes |-> dec.bin, mime |-> mime]

(***************************************************************************)
(* String literals of route.ts                                             *)
(***************************************************************************)
MimePng == <<"i", "m", "a", "g", "e", "/", "p", "n", "g">>

MimeJpeg == <<"i", "m", "a", "g", "e", "/", "j", "p", "e", "g">>

B64Tag == <<";", "b", "a", "s", "e", "6", "4">>

WaiversDir == <<"w", "a", "i", "v", "e", "r", "s", "/">>

SignatureFile == <<"/", "s", "i", "g", "n", "a", "t", "u", "r", "e", ".", "p", "n", "g">>

IdFrontFile == <<"/", "i", "d", "_", "f", "r", "o", "n", "t", ".">>

BatPrefix == <<"B", "A", "T", "-">>

PngExt == <<"p", "n", "g">>

There == <<"t", "h", "e", "r", "e">>

\* `waivers/${waiver_id}/signature.png`
SigPath(waiver_id) == WaiversDir \o ToStr(waiver_id) \o SignatureFile

\* idFront.mime.split("/")[1] || "png"
ExtOf(mime) ==
  LET e == SplitSecond(mime, "/")
  IN IF Truthy(e) THEN e.s ELSE PngExt

\* `waivers/${waiver_id}/id_front.${ext}`
IdPath(waiver_id, mime) == WaiversDir \o ToStr(waiver_id) \o IdFrontFile \o ExtOf(mime)

\* body?.waiver_id || `BAT-${Date.now()}`
ResolveWaiverId(b, t) ==
  IF Truthy(b.waiver_id) THEN b.waiver_id ELSE JsStr(BatPrefix \o Dec(t))

(***************************************************************************)
(* Request bodies the client may send                                      *)
(***************************************************************************)
\* `data:${type};base64,${b64}`
DataUrl(type, b64) == DataPrefix \o type \o B64Tag \o <<",">> \o b64

SigInputs ==
  { JsUndef,
    JsStr(DataUrl(MimePng, <<"Q", "U", "I", "=">>)),
    JsStr(<<"h", "i">>),
    JsStr(DataPrefix \o MimePng \o B64Tag) }

IdInputs ==
  { JsUndef,
    JsStr(DataUrl(MimeJpeg, <<"/", "w", "=", "=">>)),
    JsStr(DataUrl(MimePng, <<>>)),
    JsStr(DataUrl(MimePng, <<"@", "@">>)),
    JsStr(DataUrl(<<>>, <<"Q", "Q", "=", "=">>)) }

NameInputs == { JsUndef, JsStr(<<>>), JsStr(<<" ", "A", "l", " ", "B">>), JsNum(<<"7">>) }

EmailInputs == { JsUndef, JsStr(<<>>), JsStr(<<"e", "@", "x">>) }

IdInputsOfClient == { JsUndef, JsStr(<<"W", "1">>), JsStr(<<>>) }

PathInputs == { JsUndef, JsStr(DataUrl(MimePng, <<"Q", "U", "I", "=">>)) }

\* a body that parsed to a JSON object
ObjectBodies ==
  [ json : {"object"},
    waiver_id : IdInputsOfClient,
    client_name : NameInputs,
    email : EmailInputs,
    phone : {JsStr(<<"5", "5", "5">>)},
    dob : {JsUndef},
    procedure_type : {JsUndef},
    procedure_site : {JsUndef},
    signature_png : SigInputs,
    id_photo_front : IdInputs,
    signature_path : PathInputs,
    id_photo_front_path : {JsUndef},
    send_aftercare : {JsTrue, JsFalse} ]

\* a body that is not JSON (req.json() rejects) or parsed to null or a primitive
OtherBody(kind) ==
  [ json |-> kind, waiver_id |-> JsUndef, client_name |-> JsUndef, email |-> JsUndef,
    phone |-> JsUndef, dob |-> JsUndef, procedure_type |-> JsUndef,
    procedure_site |-> JsUndef, signature_png |-> JsUndef, id_photo_front |-> JsUndef,
    signature_path |-> JsUndef, id_photo_front_path |-> JsUndef,
    send_aftercare |-> JsUndef ]

\* number of the unusual values a body carries: a client_name that is not a
\* string, an empty waiver_id, a signature_path of the client's own
Unusual(b) ==
  (IF b.client_name.t = "num" THEN 1 ELSE 0)
    + (IF b.waiver_id = JsStr(<<>>) THEN 1 ELSE 0)
    + (IF b.signature_path # JsUndef THEN 1 ELSE 0)

\* the bodies sent: objects with at most one unusual value, a body that is not
\* JSON, a body that is JSON but no object
Bodies ==
  { b \in ObjectBodies : Unusual(b) <= 1 }
    \cup { OtherBody("invalid"), OtherBody("primitive") }

NoBody == OtherBody("none")

(***************************************************************************)
(* Responses, errors, log lines                                            *)
(***************************************************************************)
Absent == "(absent)"

NoResponse ==
  [status |-> 0, ok |-> FALSE, error |-> Absent, details |-> Absent, hint |-> Absent,
   waiver_id |-> JsUndef]

\* NextResponse.json({ ok: false, error: "Missing client_name or email" }, { status: 400 })
MissingResponse ==
  [status |-> 400, ok |-> FALSE, error |-> "Missing client_name or email",
   details |-> Absent, hint |-> Absent, waiver_id |-> JsUndef]

\* NextResponse.json({ ok: false, error: "Server error" }, { status: 500 })
ServerErrorResponse ==
  [status |-> 500, ok |-> FALSE, error |-> "Server error",
   details |-> Absent, hint |-> Absent, waiver_id |-> JsUndef]

\* variant: the hint is left out of the response
InsertErrorResponseNoHint(e) ==
  [status |-> 500, ok |-> FALSE, error |-> e.message,
   details |-> e.details, hint |-> Absent, waiver_id |-> JsUndef]

\* NextResponse.json({ ok: false, error: error.message, details: ..., hint: ... }, { status: 500 })
InsertErrorResponse(e) ==
  [status |-> 500, ok |-> FALSE, error |-> e.message,
   details |-> e.details, hint |-> e.hint, waiver_id |-> JsUndef]

\* NextResponse.json({ ok: true, waiver_id }, { status: 200 })
OkResponse(waiver_id) ==
  [status |-> 200, ok |-> TRUE, error |-> Absent,
   details |-> Absent, hint |-> Absent, waiver_id |-> waiver_id]

\* errors the database client may return from insert
DbErrors ==
  { [message |-> "duplicate key", details |-> "Key exists", hint |-> "none"],
    [message |-> "permission denied", details |-> "rls", hint |-> "check policy"] }

(***************************************************************************)
(* State of the ingestion service                                          *)
(***************************************************************************)
Reqs == {1, 2}

VARIABLES
  now,        \* wall clock
  pc,         \* pc[r]: where invocation r of POST stands
  req,        \* req[r]: the body as it was received
  body,       \* body[r]: the working record (the parsed body, mutated in place)
  wid,        \* wid[r]: the const waiver_id of invocation r
  uploads,    \* uploads[r]: the promises pushed to `uploads`, with their state
  inserts,    \* inserts[r]: the payloads invocation r passed to insert()
  dbError,    \* dbError[r]: the outcome of `const { error } = await ...insert()`
  notified,   \* notified[r]: the calls invocation r made to sendAftercareEmail
  mails,      \* mails[r]: the requests invocation r sent to the email API
  resp,       \* resp[r]: the response returned by invocation r
  log,        \* log[r]: console lines written by invocation r
  blobs,      \* bucket "waivers": the stored objects
  db          \* table "waivers": the inserted rows, in order, with their inserter

srvVars ==
  <<now, pc, req, body, wid, uploads, inserts, dbError, notified, mails, resp, log, blobs, db>>

\* outcomes of the insert: not yet settled, resolved without error, resolved
\* with an error, rejected
NoOutcome == [kind |-> "none", message |-> Absent, details |-> Absent, hint |-> Absent]

NullError == [kind |-> "null", message |-> Absent, details |-> Absent, hint |-> Absent]

ErrorOf(e) == [kind |-> "error", message |-> e.message, details |-> e.details, hint |-> e.hint]

Thrown == [kind |-> "threw", message |-> Absent, details |-> Absent, hint |-> Absent]

\* storage upload with upsert: true replaces the object at the path
Upsert(store, u) ==
  {o \in store : o.path # u.path}
    \cup {[path |-> u.path, bytes |-> u.bytes, contentType |-> u.contentType]}

PendingUpload(path, bytes, contentType) ==
  [path |-> path, bytes |-> bytes, contentType |-> contentType, st |-> "pending", at |-> 0]

\* variant: the test forgets the email
MissingRequiredNameOnly(b) == ~Truthy(b.client_name)

\* if (!body?.client_name || !body?.email)
MissingRequired(b) == ~Truthy(b.client_name) \/ ~Truthy(b.email)

\* the catch block of POST
Caught(b, w, ups) ==
  [pc |-> "done", body |-> b, wid |-> w, uploads |-> ups,
   resp |-> ServerErrorResponse, log |-> <<"Handler exception">>]

\* POST from the resolution of req.json() to `await Promise.all(uploads)`
Begin(b, t) ==
  LET waiver_id == ResolveWaiverId(b, t)
      sig == dataUrlToBytes(b.signature_png)
      sigPath == SigPath(waiver_id)
      ups1 == IF sig.kind = "value"
              THEN <<PendingUpload(sigPath, sig.bytes, MimePng)>>
              ELSE <<>>
      b1 == IF sig.kind = "value"
            THEN [b EXCEPT !.signature_path = JsStr(sigPath), !.signature_png = JsUndef]
            ELSE b
      idFront == dataUrlToBytes(b1.id_photo_front)
      idPath == IdPath(waiver_id, idFront.mime)
      ups2 == IF idFront.kind = "value"
              THEN Append(ups1, PendingUpload(idPath, idFront.bytes, idFront.mime))
              ELSE ups1
      b2 == IF idFront.kind = "value"
            THEN [b1 EXCEPT !.id_photo_front_path = JsStr(idPath), !.id_photo_front = JsUndef]
            ELSE b1
  IN IF b.json = "invalid"
     THEN Caught(b, JsUndef, <<>>)
     ELSE IF MissingRequired(b)
     THEN [pc |-> "done", body |-> b, wid |-> waiver_id, uploads |-> <<>>,
           resp |-> MissingResponse, log |-> <<>>]
     ELSE IF sig.kind = "threw"
     THEN Caught(b, waiver_id, <<>>)
     ELSE IF idFront.kind = "threw"
     THEN Caught(b1, waiver_id, ups1)
     ELSE [pc |-> "uploads", body |-> b2, wid |-> waiver_id, uploads |-> ups2,
           resp |-> NoResponse, log |-> <<>>]

\* new Date().toISOString()
ToISOString(t) == <<"T">> \o Dec(t) \o <<"Z">>

\* variant: the record takes the id of the body instead of the resolved one
InsertPayloadBodyId(b, waiver_id, t) ==
  [ waiver_id |-> OrNull(b.waiver_id),
    client_name |-> OrNull(b.client_name),
    email |-> OrNull(b.email),
    phone |-> OrNull(b.phone),
    dob |-> OrNull(b.dob),
    procedure_type |-> OrNull(b.procedure_type),
    procedure_site |-> OrNull(b.procedure_site),
    signature_path |-> OrNull(b.signature_path),
    id_photo_front_path |-> OrNull(b.id_photo_front_path),
    send_aftercare |-> IF Truthy(b.send_aftercare) THEN JsTrue ELSE JsFalse,
    timestamp_iso |-> JsStr(ToISOString(t)) ]

\* const insertPayload = { ... }
InsertPayload(b, waiver_id, t) ==
  [ waiver_id |-> waiver_id,
    client_name |-> OrNull(b.client_name),
    email |-> OrNull(b.email),
    phone |-> OrNull(b.phone),
    dob |-> OrNull(b.dob),
    procedure_type |-> OrNull(b.procedure_type),
    procedure_site |-> OrNull(b.procedure_site),
    signature_path |-> OrNull(b.signature_path),
    id_photo_front_path |-> OrNull(b.id_photo_front_path),
    send_aftercare |-> IF Truthy(b.send_aftercare) THEN JsTrue ELSE JsFalse,
    timestamp_iso |-> JsStr(ToISOString(t)) ]

RECURSIVE TrimStart(_)
TrimStart(s) == IF Len(s) > 0 /\ s[1] = " " THEN TrimStart(Tail(s)) ELSE s

\* (name || "").trim().split(/\s+/)[0] || "there"; throws when name has no trim method
FirstName(name) ==
  LET n == IF Truthy(name) THEN name ELSE JsStr(<<>>)
      tok == SplitFirst(TrimStart(n.s), " ")
  IN IF n.t # "str"
     THEN [threw |-> TRUE, first |-> <<>>]
     ELSE [threw |-> FALSE, first |-> IF tok = <<>> THEN There ELSE tok]

\* if (body.send_aftercare && body.email)
WantsAftercare(b) == Truthy(b.send_aftercare) /\ Truthy(b.email)

(***************************************************************************)
(* The submission encoder of page.tsx (fileToDataURL)                      *)
(***************************************************************************)
\* variant: the URL-safe alphabet
B64UrlChar(v) == IF v = 62 THEN "-" ELSE IF v = 63 THEN "_" ELSE B64Chars[v + 1]

\* the character of a six-bit value in the base64 alphabet
B64Char(v) == B64Chars[v + 1]

RECURSIVE B64Encode(_)
\* Buffer.from(buf).toString('base64'): padded to a multiple of four
B64Encode(bytes) ==
  IF Len(bytes) = 0 THEN <<>>
  ELSE IF Len(bytes) >= 3
  THEN LET n == bytes[1] * 65536 + bytes[2] * 256 + bytes[3]
       IN <<B64Char(n \div 262144), B64Char((n \div 4096) % 64),
            B64Char((n \div 64) % 64), B64Char(n % 64)>>
          \o B64Encode(Slice(bytes, 3, Len(bytes)))
  ELSE IF Len(bytes) = 2
  THEN LET n == (bytes[1] * 256 + bytes[2]) * 4
       IN <<B64Char(n \div 4096), B64Char((n \div 64) % 64), B64Char(n % 64), "=">>
  ELSE LET n == bytes[1] * 16
       IN <<B64Char(n \div 64), B64Char(n % 64), "=", "=">>

\* useState<File | null>(null)
NoFile == [present |-> FALSE, type |-> <<>>, bytes |-> <<>>]

File(type, bytes) == [present |-> TRUE, type |-> type, bytes |-> bytes]

\* fileToDataURL(file), when file.arrayBuffer() resolves
fileToDataURL(file) ==
  IF ~file.present THEN JsNull
  ELSE JsStr(DataPrefix \o file.type \o B64Tag \o <<",">> \o B64Encode(file.bytes))

(***************************************************************************)
(* State of the waiver form (WaiverPage of page.tsx)                       *)
(***************************************************************************)
VARIABLES
  clientName,    \* useState('')
  email,         \* useState('')
  consents,      \* one boolean per consent item
  idFile,        \* the file of the ID photo input, or null
  sendAftercare, \* useState(true)
  submitting,    \* useState(false)
  result,        \* useState<string | null>(null)
  alerts,        \* the alert() calls so far
  cpc,           \* where handleSubmit is: "form" when it is not running
  draft,         \* what the running handleSubmit holds in its closure
  posts,         \* the bodies passed to fetch('/api/waiver', { method: 'POST' })
  attempts,      \* the submit events so far
  got            \* how the last awaited call of handleSubmit ended

cliVars == <<clientName, email, consents, idFile, sendAftercare, submitting, result,
             alerts, cpc, draft, posts, attempts, got>>

\* the part of the page that the user fills in
fields == <<clientName, email, consents, idFile, sendAftercare>>

VARIABLES
  codecPc,    \* how far the ID photo has travelled
  tagged,     \* the string made of it by fileToDataURL
  decoded,    \* what dataUrlToBytes made of that string
  retagged    \* the decoded photo, encoded again

codecVars == <<codecPc, tagged, decoded, retagged>>

(***************************************************************************)
(* State of the signature pad (useSignaturePad of page.tsx)                *)
(***************************************************************************)
VARIABLES
  mounted,    \* the effects of useSignaturePad have run
  parentW,    \* parent.clientWidth
  dpr,        \* window.devicePixelRatio
  cw,         \* canvas.width
  ch,         \* canvas.height
  cssW,       \* canvas.style.width, in px
  base,       \* alpha left in every pixel by the last whole-surface operation
  ink,        \* pixels covered by a stroke since then
  drawing,    \* drawing.current
  lastX,      \* lastX of the pointer effect
  lastY,      \* lastY of the pointer effect
  segs,       \* the stroke() calls since the surface was last initialized
  pressed,    \* a pointerdown was delivered to the canvas and no pointerup since
  sample,     \* the point of the last pointerdown, or pointermove while pressed
  evt         \* the last event delivered to the widget

\* what the widget itself holds
widget == <<mounted, parentW, dpr, cw, ch, cssW, base, ink, drawing, lastX, lastY, segs>>

padVars == <<mounted, parentW, dpr, cw, ch, cssW, base, ink, drawing, lastX, lastY, segs,
             pressed, sample, evt>>

(***************************************************************************)
(* Actions of the ingestion service                                        *)
(***************************************************************************)
SrvInit ==
  /\ now = 1
  /\ pc = [r \in Reqs |-> "idle"]
  /\ req = [r \in Reqs |-> NoBody]
  /\ body = [r \in Reqs |-> NoBody]
  /\ wid = [r \in Reqs |-> JsUndef]
  /\ uploads = [r \in Reqs |-> <<>>]
  /\ inserts = [r \in Reqs |-> <<>>]
  /\ dbError = [r \in Reqs |-> NoOutcome]
  /\ notified = [r \in Reqs |-> <<>>]
  /\ mails = [r \in Reqs |-> <<>>]
  /\ resp = [r \in Reqs |-> NoResponse]
  /\ log = [r \in Reqs |-> <<>>]
  /\ blobs = {}
  /\ db = <<>>

\* the clock advances
Tick ==
  /\ now < MaxClock
  /\ now' = now + 1
  /\ UNCHANGED <<pc, req, body, wid, uploads, inserts, dbError, notified, mails, resp,
                 log, blobs, db, padVars, cliVars, codecVars>>

\* a request with body b arrives and POST runs up to its first await on the uploads
Post(r, b) ==
  /\ pc[r] = "idle"
  /\ LET n == Begin(b, now)
     IN /\ pc' = [pc EXCEPT ![r] = n.pc]
        /\ req' = [req EXCEPT ![r] = b]
        /\ body' = [body EXCEPT ![r] = n.body]
        /\ wid' = [wid EXCEPT ![r] = n.wid]
        /\ uploads' = [uploads EXCEPT ![r] = n.uploads]
        /\ resp' = [resp EXCEPT ![r] = n.resp]
        /\ log' = [log EXCEPT ![r] = n.log]
  /\ UNCHANGED <<now, inserts, dbError, notified, mails, blobs, db, padVars, cliVars, codecVars>>

\* the storage client settles upload i of invocation r:
\*   "ok"       resolves with { data }, the object is stored
\*   "error"    resolves with { error }, nothing is stored
\*   "rejected" the promise rejects, nothing is stored
\* number of the uploads that storage has answered, over all invocations
Answered ==
  Cardinality({x \in Reqs \X {1, 2} :
                 x[2] <= Len(uploads[x[1]]) /\ uploads[x[1]][x[2]].st # "pending"})

UploadSettles(r, i, outcome) ==
  /\ i \in 1..Len(uploads[r])
  /\ uploads[r][i].st = "pending"
  /\ uploads' = [uploads EXCEPT ![r][i].st = outcome, ![r][i].at = Answered + 1]
  /\ blobs' = IF outcome = "ok" THEN Upsert(blobs, uploads[r][i]) ELSE blobs
  /\ UNCHANGED <<now, pc, req, body, wid, inserts, dbError, notified, mails, resp, log, db, padVars, cliVars, codecVars>>

\* variant: the exception leaves the handler, no response is produced
CatchRethrows(r) ==
  /\ pc' = [pc EXCEPT ![r] = "done"]
  /\ resp' = resp
  /\ log' = [log EXCEPT ![r] = Append(@, "Handler exception")]

\* the handler leaves through its catch block
Catch(r) ==
  /\ pc' = [pc EXCEPT ![r] = "done"]
  /\ resp' = [resp EXCEPT ![r] = ServerErrorResponse]
  /\ log' = [log EXCEPT ![r] = Append(@, "Handler exception")]

\* Promise.all(uploads) rejects as soon as one upload rejects: the catch block runs
UploadsRejected(r) ==
  /\ pc[r] = "uploads"
  /\ \E i \in 1..Len(uploads[r]) : uploads[r][i].st = "rejected"
  /\ Catch(r)
  /\ UNCHANGED <<now, req, body, wid, uploads, inserts, dbError, notified, mails, blobs, db, padVars, cliVars, codecVars>>

\* variant: the payload is built as soon as one upload has resolved
UploadsResolvedEarly(r) ==
  /\ pc[r] = "uploads"
  /\ \E i \in 1..Len(uploads[r]) : uploads[r][i].st \in {"ok", "error"}
  /\ \A i \in 1..Len(uploads[r]) : uploads[r][i].st # "rejected"
  /\ inserts' = [inserts EXCEPT ![r] = Append(@, InsertPayload(body[r], wid[r], now))]
  /\ pc' = [pc EXCEPT ![r] = "insert"]
  /\ UNCHANGED <<now, req, body, wid, uploads, dbError, notified, mails, resp, log, blobs, db, padVars, cliVars, codecVars>>

\* Promise.all(uploads) resolves once every upload has resolved (its results are
\* dropped); the payload is built and insert() is called
UploadsResolved(r) ==
  /\ pc[r] = "uploads"
  /\ \A i \in 1..Len(uploads[r]) : uploads[r][i].st \in {"ok", "error"}
  /\ inserts' = [inserts EXCEPT ![r] = Append(@, InsertPayload(body[r], wid[r], now))]
  /\ pc' = [pc EXCEPT ![r] = "insert"]
  /\ UNCHANGED <<now, req, body, wid, uploads, dbError, notified, mails, resp, log, blobs, db, padVars, cliVars, codecVars>>

\* variant: a failed insert is issued again
InsertFailsAndRetries(r, e) ==
  /\ pc[r] = "insert"
  /\ inserts' = [inserts EXCEPT ![r] = Append(@, inserts[r][Len(inserts[r])])]
  /\ log' = [log EXCEPT ![r] = Append(@, "DB insert error")]
  /\ UNCHANGED <<now, pc, req, body, wid, uploads, dbError, notified, mails, resp, blobs, db, padVars, cliVars, codecVars>>

\* insert() resolves with { error }: the 500 response carries the error
InsertFails(r, e) ==
  /\ pc[r] = "insert"
  /\ dbError' = [dbError EXCEPT ![r] = ErrorOf(e)]
  /\ pc' = [pc EXCEPT ![r] = "done"]
  /\ resp' = [resp EXCEPT ![r] = InsertErrorResponse(e)]
  /\ log' = [log EXCEPT ![r] = Append(@, "DB insert error")]
  /\ UNCHANGED <<now, req, body, wid, uploads, inserts, notified, mails, blobs, db, padVars, cliVars, codecVars>>

\* insert() rejects: the catch block runs
InsertThrows(r) ==
  /\ pc[r] = "insert"
  /\ dbError' = [dbError EXCEPT ![r] = Thrown]
  /\ Catch(r)
  /\ UNCHANGED <<now, req, body, wid, uploads, inserts, notified, mails, blobs, db, padVars, cliVars, codecVars>>

\* insert() resolves without error: the row is stored; then either the response
\* is returned or sendAftercareEmail runs up to its fetch
InsertSucceeds(r) ==
  /\ pc[r] = "insert"
  /\ dbError' = [dbError EXCEPT ![r] = NullError]
  /\ db' = Append(db, [by |-> r, row |-> inserts[r][Len(inserts[r])]])
  /\ IF WantsAftercare(body[r])
     THEN LET f == FirstName(body[r].client_name)
          IN /\ notified' = [notified EXCEPT ![r] =
                  Append(@, [to |-> body[r].email, name |-> body[r].client_name])]
             /\ IF f.threw
                THEN /\ Catch(r)
                     /\ UNCHANGED mails
                ELSE /\ pc' = [pc EXCEPT ![r] = "email"]
                     /\ mails' = [mails EXCEPT ![r] =
                          Append(@, [to |-> body[r].email, first |-> f.first,
                                     st |-> "pending"])]
                     /\ UNCHANGED <<resp, log>>
     ELSE /\ pc' = [pc EXCEPT ![r] = "done"]
          /\ resp' = [resp EXCEPT ![r] = OkResponse(wid[r])]
          /\ UNCHANGED <<notified, mails, log>>
  /\ UNCHANGED <<now, req, body, wid, uploads, inserts, blobs, padVars, cliVars, codecVars>>

\* the email API answers: "ok" when r.ok, "status" otherwise; either way only a
\* log line is written and POST returns the 200 response
EmailAnswers(r, outcome) ==
  /\ pc[r] = "email"
  /\ mails' = [mails EXCEPT ![r][Len(mails[r])].st = outcome]
  /\ pc' = [pc EXCEPT ![r] = "done"]
  /\ log' = [log EXCEPT ![r] =
       Append(@, IF outcome = "ok" THEN "Brevo send ok" ELSE "Brevo send error")]
  /\ resp' = [resp EXCEPT ![r] = OkResponse(wid[r])]
  /\ UNCHANGED <<now, req, body, wid, uploads, inserts, dbError, notified, blobs, db, padVars, cliVars, codecVars>>

\* fetch (or r.text()) rejects inside sendAftercareEmail, which has no try/catch:
\* the rejection reaches the catch block of POST
EmailThrows(r) ==
  /\ pc[r] = "email"
  /\ mails' = [mails EXCEPT ![r][Len(mails[r])].st = "threw"]
  /\ Catch(r)
  /\ UNCHANGED <<now, req, body, wid, uploads, inserts, dbError, notified, blobs, db, padVars, cliVars, codecVars>>

\* the bodies with which invocation r may still start
Arriving(r) == IF pc[r] = "idle" THEN Bodies ELSE {}

\* the steps of invocation r after the synchronous prefix
Steps(r) ==
  \/ \E i \in 1..2, o \in {"ok", "error", "rejected"} : UploadSettles(r, i, o)
  \/ UploadsRejected(r)
  \/ UploadsResolved(r)
  \/ \E e \in DbErrors : InsertFails(r, e)
  \/ InsertThrows(r)
  \/ InsertSucceeds(r)
  \/ \E o \in {"ok", "status"} : EmailAnswers(r, o)
  \/ EmailThrows(r)

\* the steps of invocation r
Handler(r) ==
  \/ \E b \in Arriving(r) : Post(r, b)
  \/ Steps(r)

(***************************************************************************)
(* The signature pad of page.tsx (useSignaturePad, hasAnyInk)              *)
(*                                                                         *)
(* The bitmap is kept as a uniform alpha `base` (what the last operation   *)
(* on the whole surface left in every pixel) and the set `ink` of pixels   *)
(* covered by strokes since.  Pointer positions are CSS pixels; the bitmap *)
(* has dpr device pixels per CSS pixel.                                    *)
(***************************************************************************)
\* const h = 160
CanvasHeight == 160

\* ctx.lineWidth = 2
LineWidth == 2

\* const step = 4
Step == 4

\* parent.clientWidth
ParentWidths == {0, 6, 9}

\* window.devicePixelRatio
PixelRatios == {1, 2}

\* positions of pointer events, relative to the canvas
Points == { <<1, 1>>, <<6, 2>>, <<2, 7>> }

PadInit ==
  /\ mounted = FALSE
  /\ parentW = 0
  /\ dpr = 1
  /\ cw = 300
  /\ ch = 150
  /\ cssW = 0
  /\ base = 0
  /\ ink = {}
  /\ drawing = FALSE
  /\ lastX = 0
  /\ lastY = 0
  /\ segs = <<>>
  /\ pressed = FALSE
  /\ sample = <<0, 0>>
  /\ evt = "none"

Sq(n) == n * n

\* squared distance, in half device pixels, from the centre of pixel px to the
\* segment a-b given in CSS pixels, is at most the squared half line width
Covers(px, a, b, d) ==
  LET x == 2 * px[1] + 1
      y == 2 * px[2] + 1
      ax == 2 * d * a[1]
      ay == 2 * d * a[2]
      bx == 2 * d * b[1]
      by == 2 * d * b[2]
      r == d * LineWidth
      len2 == Sq(bx - ax) + Sq(by - ay)
      dot == (x - ax) * (bx - ax) + (y - ay) * (by - ay)
      cross == (x - ax) * (by - ay) - (y - ay) * (bx - ax)
  IN IF dot <= 0 THEN Sq(x - ax) + Sq(y - ay) <= Sq(r)
     ELSE IF dot >= len2 THEN Sq(x - bx) + Sq(y - by) <= Sq(r)
     ELSE Sq(cross) <= Sq(r) * len2

\* beginPath(); moveTo(a); lineTo(b); stroke(): the pixels painted.  A
\* zero-length segment is pruned from the path and paints nothing.
StrokePixels(a, b, w, h, d) ==
  IF a = b THEN {}
  ELSE { px \in (0..(w - 1)) \X (0..(h - 1)) : Covers(px, a, b, d) }

\* data[(y * width + x) * 4 + 3]
AlphaAt(x, y, b, k) == IF <<x, y>> \in k THEN 255 ELSE b

\* hasAnyInk(canvas)
hasAnyInk(w, h, b, k) ==
  IF w = 0 \/ h = 0 THEN FALSE
  ELSE \E y \in 0..(h - 1), x \in 0..(w - 1) :
         /\ y % Step = 0
         /\ x % Step = 0
         /\ AlphaAt(x, y, b, k) > 0

\* resize(): setting canvas.width resets the bitmap, fillRect paints all of it white
Resize(w, d) ==
  /\ cw' = w * d
  /\ ch' = CanvasHeight * d
  /\ cssW' = w
  /\ base' = 255
  /\ ink' = {}
  /\ segs' = <<>>

\* the two effects run when the page mounts: resize() and the pointer listeners
Mount(w, d) ==
  /\ ~mounted
  /\ mounted' = TRUE
  /\ parentW' = w
  /\ dpr' = d
  /\ Resize(w, d)
  /\ evt' = "mount"
  /\ UNCHANGED <<drawing, lastX, lastY, pressed, sample, srvVars, cliVars, codecVars>>

\* the window is resized: the listener calls resize()
WindowResize(w) ==
  /\ mounted
  /\ w # parentW
  /\ parentW' = w
  /\ Resize(w, dpr)
  /\ evt' = "resize"
  /\ UNCHANGED <<mounted, dpr, drawing, lastX, lastY, pressed, sample, srvVars, cliVars, codecVars>>

\* "Clear signature": clearRect over the bitmap, then resize()
clear ==
  /\ mounted
  /\ Resize(parentW, dpr)
  /\ evt' = "clear"
  /\ UNCHANGED <<mounted, parentW, dpr, drawing, lastX, lastY, pressed, sample, srvVars, cliVars, codecVars>>

OnCanvas(p) == p[1] < cssW /\ p[2] < CanvasHeight

\* pointerdown on the canvas
down(p) ==
  /\ mounted
  /\ OnCanvas(p)
  /\ drawing' = TRUE
  /\ lastX' = p[1]
  /\ lastY' = p[2]
  /\ pressed' = TRUE
  /\ sample' = p
  /\ evt' = "down"
  /\ UNCHANGED <<mounted, parentW, dpr, cw, ch, cssW, base, ink, segs, srvVars, cliVars, codecVars>>

\* variant: the start of the next segment is not advanced
moveFromOrigin(p) ==
  /\ mounted
  /\ OnCanvas(p)
  /\ IF ~drawing
     THEN UNCHANGED <<ink, segs, lastX, lastY>>
     ELSE /\ Len(segs) < MaxSegs
          /\ ink' = ink \cup StrokePixels(<<lastX, lastY>>, p, cw, ch, dpr)
          /\ segs' = Append(segs, <<<<lastX, lastY>>, p>>)
          /\ UNCHANGED <<lastX, lastY>>
  /\ sample' = IF pressed THEN p ELSE sample
  /\ evt' = "move"
  /\ UNCHANGED <<mounted, parentW, dpr, cw, ch, cssW, base, drawing, pressed, srvVars, cliVars, codecVars>>

\* pointermove on the canvas
move(p) ==
  /\ mounted
  /\ OnCanvas(p)
  /\ IF ~drawing
     THEN UNCHANGED <<ink, segs, lastX, lastY>>
     ELSE /\ Len(segs) < MaxSegs
          /\ ink' = ink \cup StrokePixels(<<lastX, lastY>>, p, cw, ch, dpr)
          /\ segs' = Append(segs, <<<<lastX, lastY>>, p>>)
          /\ lastX' = p[1]
          /\ lastY' = p[2]
  /\ sample' = IF pressed THEN p ELSE sample
  /\ evt' = "move"
  /\ UNCHANGED <<mounted, parentW, dpr, cw, ch, cssW, base, drawing, pressed, srvVars, cliVars, codecVars>>

\* pointerup anywhere in the window
up ==
  /\ mounted
  /\ drawing' = FALSE
  /\ pressed' = FALSE
  /\ evt' = "up"
  /\ UNCHANGED <<mounted, parentW, dpr, cw, ch, cssW, base, ink, lastX, lastY, segs, sample, srvVars, cliVars, codecVars>>

Pad ==
  \/ \E w \in ParentWidths, d \in PixelRatios : Mount(w, d)
  \/ \E w \in ParentWidths : WindowResize(w)
  \/ clear
  \/ \E p \in Points : down(p)
  \/ \E p \in Points : move(p)
  \/ up

(***************************************************************************)
(* The waiver form and the way of the ID photo                             *)
(***************************************************************************)
\* the seventeen entries of consentItems
NumConsents == 17

\* useState<string | null>(null)
NoResult == [msg |-> Absent, id |-> <<>>]

\* setResult('Something went wrong saving your waiver. Please try again.')
SavingFailed == [msg |-> "Something went wrong saving your waiver. Please try again.", id |-> <<>>]

\* setResult('Network error. Please try again.')
NetworkError == [msg |-> "Network error. Please try again.", id |-> <<>>]

\* setResult(`Waiver submitted! Your ID: ${json.waiver_id || waiver_id}`)
Submitted(id) == [msg |-> "Waiver submitted! Your ID: ", id |-> id]

\* `BAT-LOCAL-${Math.floor(Math.random() * 100000)}`
BatLocal(n) == <<"B", "A", "T", "-", "L", "O", "C", "A", "L", "-">> \o Dec(n)

\* canvas.toDataURL('image/png'): a PNG data URL, its content left open
CanvasPng == DataUrl(MimePng, <<"Q", "U", "I", "=">>)

\* the object given to JSON.stringify, as far as the form modelled here fills it
Payload(waiver_id, name, mail, acks, photo, aftercare) ==
  [ waiver_id |-> waiver_id,
    client_name |-> name,
    email |-> mail,
    acks |-> acks,
    signature_png |-> CanvasPng,
    id_photo_front |-> photo,
    send_aftercare |-> aftercare ]

\* no handleSubmit is running
NoDraft == [waiver_id |-> <<>>, name |-> <<>>, mail |-> <<>>, acks |-> <<>>, file |-> NoFile,
            aftercare |-> FALSE]

\* nothing awaited yet
NoAnswer == [kind |-> "none", ok |-> FALSE, jsonOk |-> FALSE, waiver_id |-> JsUndef]

\* the awaited promise rejected
Rejected(what) == [kind |-> what, ok |-> FALSE, jsonOk |-> FALSE, waiver_id |-> JsUndef]

\* the page as it is first rendered
FormInit ==
  /\ clientName = <<>>
  /\ email = <<>>
  /\ consents = [i \in 1..NumConsents |-> FALSE]
  /\ idFile = NoFile
  /\ sendAftercare = TRUE
  /\ submitting = FALSE
  /\ result = NoResult
  /\ alerts = <<>>
  /\ cpc = "form"
  /\ draft = NoDraft
  /\ posts = <<>>
  /\ attempts = 0
  /\ got = NoAnswer

CodecInit ==
  /\ codecPc = "file"
  /\ tagged = JsNull
  /\ decoded = dataUrlToBytes(JsNull)
  /\ retagged = JsNull

\* sizes and contents of the photos tried
ByteValues == {0, 65, 255}

RECURSIVE SeqsUpTo(_, _)
SeqsUpTo(S, n) ==
  IF n = 0 THEN {<<>>}
  ELSE LET shorter == SeqsUpTo(S, n - 1)
       IN shorter \cup {Append(q, x) : q \in shorter, x \in S}

\* file.type: a media type, or empty when the browser knows none
FileTypes == {MimePng, MimeJpeg, <<>>}

Files == {File(t, b) : t \in FileTypes, b \in SeqsUpTo(ByteValues, MaxBytes)}

\* handleSubmit: id_photo_front = await fileToDataURL(idFile)
Encode ==
  /\ codecPc = "file"
  /\ tagged' = fileToDataURL(idFile)
  /\ codecPc' = "tagged"
  /\ UNCHANGED <<decoded, retagged, cliVars, srvVars, padVars>>

\* POST: idFront = dataUrlToBytes(body.id_photo_front)
Decode ==
  /\ codecPc = "tagged"
  /\ decoded' = dataUrlToBytes(tagged)
  /\ codecPc' = "decoded"
  /\ UNCHANGED <<tagged, retagged, cliVars, srvVars, padVars>>

\* the decoded bytes and type, given to fileToDataURL as a file again
ReEncode ==
  /\ codecPc = "decoded"
  /\ decoded.kind = "value"
  /\ retagged' = fileToDataURL(File(decoded.mime, decoded.bytes))
  /\ codecPc' = "retagged"
  /\ UNCHANGED <<tagged, decoded, cliVars, srvVars, padVars>>

\* what the user may type and pick
Names == {<<>>, <<"A", "l">>}

Emails == {<<>>, <<"e", "@", "x">>}

Photos == {NoFile, File(MimeJpeg, <<255>>)}

\* the consent items the user is seen to tick and untick
EditedConsents == {1, NumConsents}

\* values Math.floor(Math.random() * 100000) may take
Randoms == {0, 99999}

setClientName(v) ==
  /\ v # clientName
  /\ clientName' = v
  /\ UNCHANGED <<email, consents, idFile, sendAftercare, submitting, result, alerts, cpc,
                 draft, posts, attempts, got, srvVars, padVars, codecVars>>

setEmail(v) ==
  /\ v # email
  /\ email' = v
  /\ UNCHANGED <<clientName, consents, idFile, sendAftercare, submitting, result, alerts, cpc,
                 draft, posts, attempts, got, srvVars, padVars, codecVars>>

\* setConsents((arr) => { copy[idx] = v; return copy })
setConsents(idx, v) ==
  /\ v # consents[idx]
  /\ consents' = [consents EXCEPT ![idx] = v]
  /\ UNCHANGED <<clientName, email, idFile, sendAftercare, submitting, result, alerts, cpc,
                 draft, posts, attempts, got, srvVars, padVars, codecVars>>

\* setIdFile(e.target.files?.[0] || null)
setIdFile(f) ==
  /\ f # idFile
  /\ idFile' = f
  /\ UNCHANGED <<clientName, email, consents, sendAftercare, submitting, result, alerts, cpc,
                 draft, posts, attempts, got, srvVars, padVars, codecVars>>

\* variant: one ticked consent item is enough
FirstAlertSomeConsent(name, mail, acks, inked) ==
  IF name = <<>> \/ mail = <<>> THEN "Please fill required fields (Name, Email)."
  ELSE IF ~(\E i \in 1..Len(acks) : acks[i]) THEN "Please check all informed consent items."
  ELSE IF ~inked THEN "Please sign in the signature box."
  ELSE Absent

\* the alert with which handleSubmit turns the form down, if any
FirstAlert(name, mail, acks, inked) ==
  IF name = <<>> \/ mail = <<>> THEN "Please fill required fields (Name, Email)."
  ELSE IF ~(\A i \in 1..Len(acks) : acks[i]) THEN "Please check all informed consent items."
  ELSE IF ~inked THEN "Please sign in the signature box."
  ELSE Absent

\* handleSubmit up to its first await; the submit button is disabled while
\* submitting is set
Submit(n) ==
  /\ mounted
  /\ ~submitting
  /\ cpc = "form"
  /\ attempts < MaxSubmits
  /\ attempts' = attempts + 1
  /\ result' = NoResult
  /\ LET a == FirstAlert(clientName, email, consents, hasAnyInk(cw, ch, base, ink))
     IN IF a # Absent
        THEN /\ alerts' = Append(alerts, a)
             /\ UNCHANGED <<submitting, cpc, draft>>
        ELSE /\ submitting' = TRUE
             /\ cpc' = "encoding"
             /\ draft' = [waiver_id |-> BatLocal(n), name |-> clientName, mail |-> email,
                          acks |-> consents, file |-> idFile, aftercare |-> sendAftercare]
             /\ UNCHANGED alerts
  /\ UNCHANGED <<clientName, email, consents, idFile, sendAftercare, posts, got,
                 srvVars, padVars, codecVars>>

\* variant: a failed submission empties the consent list
FailedAndReset(msg) ==
  /\ result' = msg
  /\ submitting' = FALSE
  /\ cpc' = "form"
  /\ draft' = NoDraft
  /\ consents' = [i \in 1..NumConsents |-> FALSE]
  /\ UNCHANGED <<clientName, email, idFile, sendAftercare>>

\* a message is set, then the finally block: setSubmitting(false)
Failed(msg) ==
  /\ result' = msg
  /\ submitting' = FALSE
  /\ cpc' = "form"
  /\ draft' = NoDraft
  /\ UNCHANGED <<clientName, email, consents, idFile, sendAftercare>>

\* fileToDataURL resolved: the payload is built and fetch is called
FileRead ==
  /\ cpc = "encoding"
  /\ posts' = Append(posts, Payload(draft.waiver_id, draft.name, draft.mail, draft.acks,
                                    fileToDataURL(draft.file), draft.aftercare))
  /\ cpc' = "fetching"
  /\ UNCHANGED <<clientName, email, consents, idFile, sendAftercare, submitting, result,
                 alerts, draft, attempts, got, srvVars, padVars, codecVars>>

\* file.arrayBuffer() rejected, or Buffer is not defined: the catch block
FileUnreadable ==
  /\ cpc = "encoding"
  /\ draft.file.present
  /\ got' = Rejected("file")
  /\ Failed(NetworkError)
  /\ UNCHANGED <<alerts, posts, attempts, srvVars, padVars, codecVars>>

\* r.ok and the body of a response; a body that is not JSON reads as {}
Answers ==
  { [kind |-> "response", ok |-> TRUE, jsonOk |-> TRUE, waiver_id |-> JsStr(<<"W", "1">>)],
    [kind |-> "response", ok |-> TRUE, jsonOk |-> TRUE, waiver_id |-> JsUndef],
    [kind |-> "response", ok |-> TRUE, jsonOk |-> FALSE, waiver_id |-> JsUndef],
    [kind |-> "response", ok |-> FALSE, jsonOk |-> FALSE, waiver_id |-> JsUndef],
    [kind |-> "response", ok |-> FALSE, jsonOk |-> TRUE, waiver_id |-> JsUndef] }

\* fetch resolved and the body was read
FetchAnswers(a) ==
  /\ cpc = "fetching"
  /\ got' = a
  /\ IF ~a.ok \/ ~a.jsonOk
     THEN Failed(SavingFailed)
     ELSE /\ result' = Submitted(IF Truthy(a.waiver_id) THEN a.waiver_id.s ELSE draft.waiver_id)
          /\ submitting' = FALSE
          /\ cpc' = "form"
          /\ draft' = NoDraft
          /\ UNCHANGED <<clientName, email, consents, idFile, sendAftercare>>
  /\ UNCHANGED <<alerts, posts, attempts, srvVars, padVars, codecVars>>

\* fetch rejected: the catch block
FetchThrows ==
  /\ cpc = "fetching"
  /\ got' = Rejected("fetch")
  /\ Failed(NetworkError)
  /\ UNCHANGED <<alerts, posts, attempts, srvVars, padVars, codecVars>>

\* widths of the signature box in the pages tried
FormWidths == {0, 6}

Form ==
  \/ \E w \in FormWidths : Mount(w, 1)
  \/ \E w \in FormWidths : WindowResize(w)
  \/ \E v \in Names : setClientName(v)
  \/ \E v \in Emails : setEmail(v)
  \/ \E idx \in EditedConsents, v \in BOOLEAN : setConsents(idx, v)
  \/ \E f \in Photos : setIdFile(f)
  \/ \E n \in Randoms : Submit(n)
  \/ FileRead
  \/ FileUnreadable
  \/ \E a \in Answers : FetchAnswers(a)
  \/ FetchThrows

(***************************************************************************)
(* Specifications                                                          *)
(***************************************************************************)
vars == <<srvVars, padVars, cliVars, codecVars>>

Init == SrvInit /\ PadInit /\ FormInit /\ CodecInit

\* one invocation of the handler, from an empty bucket and table
Next == Tick \/ Handler(1)

Spec == Init /\ [][Next]_vars

\* every pending call of the invocation is eventually answered (with a result
\* or a rejection) and the continuation of the handler then runs
LiveSpec == Spec /\ WF_vars(Handler(1))

\* the signature pad of one page
PadNext == Pad

PadSpec == Init /\ [][PadNext]_vars

\* a body as the page sends it, with a name, an email and the aftercare option
PairBody(id, sig, photo) ==
  [ json |-> "object", waiver_id |-> JsStr(id),
    client_name |-> JsStr(<<" ", "A", "l", " ", "B">>), email |-> JsStr(<<"e", "@", "x">>),
    phone |-> JsStr(<<"5", "5", "5">>), dob |-> JsUndef, procedure_type |-> JsUndef,
    procedure_site |-> JsUndef, signature_png |-> JsStr(sig), id_photo_front |-> photo,
    signature_path |-> JsUndef, id_photo_front_path |-> JsUndef, send_aftercare |-> JsTrue ]

\* the first invocation carries W1, a signature of bytes 65 66 and a photo of
\* byte 255; the second carries W1 or W2, a signature of byte 65 and a photo
\* of byte 0 or none
PairArriving(r) ==
  IF pc[r] # "idle" THEN {}
  ELSE IF r = 1
  THEN { PairBody(<<"W", "1">>, DataUrl(MimePng, <<"Q", "U", "I", "=">>),
                  JsStr(DataUrl(MimeJpeg, <<"/", "w", "=", "=">>))) }
  ELSE { PairBody(id, DataUrl(MimePng, <<"Q", "Q", "=", "=">>), photo) :
           id \in {<<"W", "1">>, <<"W", "2">>},
           photo \in {JsUndef, JsStr(DataUrl(MimeJpeg, <<"A", "A", "=", "=">>))} }

\* two invocations on the same bucket and table, interleaved at their awaits
PairNext ==
  \E r \in Reqs :
    \/ \E b \in PairArriving(r) : Post(r, b)
    \/ Steps(r)

PairSpec == Init /\ [][PairNext]_vars

\* one page: the form is filled in and submitted; the consent items other than
\* the edited ones are found all unticked or all ticked
FormInit0 ==
  /\ SrvInit /\ PadInit /\ CodecInit
  /\ clientName = <<>> /\ email = <<>>
  /\ consents \in {[i \in 1..NumConsents |-> v] : v \in BOOLEAN}
  /\ idFile = NoFile
  /\ sendAftercare = TRUE /\ submitting = FALSE /\ result = NoResult /\ alerts = <<>>
  /\ cpc = "form" /\ draft = NoDraft /\ posts = <<>> /\ attempts = 0
  /\ got = NoAnswer

FormNext == Form

FormSpec == FormInit0 /\ [][FormNext]_vars

\* an ID photo picked in the form, encoded by the page and decoded by the route
CodecInit0 ==
  /\ SrvInit /\ PadInit /\ CodecInit
  /\ idFile \in Files
  /\ clientName = <<>> /\ email = <<>> /\ consents = [i \in 1..NumConsents |-> FALSE]
  /\ sendAftercare = TRUE /\ submitting = FALSE /\ result = NoResult /\ alerts = <<>>
  /\ cpc = "form" /\ draft = NoDraft /\ posts = <<>> /\ attempts = 0
  /\ got = NoAnswer

CodecNext == Encode \/ Decode \/ ReEncode

CodecSpec == CodecInit0 /\ [][CodecNext]_vars

(***************************************************************************)
(* Properties of the ingestion service                                     *)
(***************************************************************************)
\* rows of the table inserted by invocation r
RowsBy(r) == { i \in 1..Len(db) : db[i].by = r }

\* invocation r has an upload that failed, either way the storage client reports it
UploadFailed(r) == \E i \in 1..Len(uploads[r]) : uploads[r][i].st \in {"error", "rejected"}

IsDataUrl(v) == v.t = "str" /\ StartsWith(v.s, DataPrefix)

\* C1: a request whose parsed body has no non-empty client_name or no non-empty
\* email is answered 400 with ok:false, and the invocation issues no upload,
\* no insert and no notification.
C1_MissingFieldRejected ==
  \A r \in Reqs :
    ( /\ pc[r] # "idle"
      /\ req[r].json # "invalid"
      /\ (~Truthy(req[r].client_name) \/ ~Truthy(req[r].email)) )
    => /\ pc[r] = "done"
       /\ resp[r].status = 400
       /\ resp[r].ok = FALSE
       /\ uploads[r] = <<>>
       /\ inserts[r] = <<>>
       /\ RowsBy(r) = {}
       /\ notified[r] = <<>>
       /\ mails[r] = <<>>

\* a request that carries a name and a decodable signature but an empty email
\* has been answered 400
C1_Witness ==
  \E r \in Reqs :
    /\ pc[r] = "done"
    /\ Truthy(req[r].client_name)
    /\ req[r].email = JsStr(<<>>)
    /\ dataUrlToBytes(req[r].signature_png).kind = "value"
    /\ resp[r].status = 400

\* C2: the waiver_id of an invocation is the one the client supplied, or else
\* BAT-<time>; every upload path of the invocation is waivers/<id>/signature.png
\* or waivers/<id>/id_front.<ext> with that id, the payload passed to insert and
\* the inserted row carry that id, and so does the success response.
C2_WaiverIdStable ==
  \A r \in Reqs :
    (pc[r] # "idle" /\ req[r].json # "invalid")
    => /\ Truthy(req[r].waiver_id) => wid[r] = req[r].waiver_id
       /\ ~Truthy(req[r].waiver_id) =>
            \E t \in 1..now : wid[r] = JsStr(<<"B", "A", "T", "-">> \o Dec(t))
       /\ \A i \in 1..Len(uploads[r]) :
            \/ uploads[r][i].path = WaiversDir \o ToStr(wid[r]) \o SignatureFile
            \/ StartsWith(uploads[r][i].path, WaiversDir \o ToStr(wid[r]) \o IdFrontFile)
       /\ \A i \in 1..Len(inserts[r]) : inserts[r][i].waiver_id = wid[r]
       /\ \A i \in RowsBy(r) : db[i].row.waiver_id = wid[r]
       /\ resp[r].ok => resp[r].waiver_id = wid[r]

\* a request without waiver_id uploaded both attachments, inserted its row and
\* was answered 200
C2_Witness ==
  \E r \in Reqs :
    /\ ~Truthy(req[r].waiver_id)
    /\ Len(uploads[r]) = 2
    /\ RowsBy(r) # {}
    /\ resp[r].status = 200

\* C3: an invocation calls insert at most once, answers 200 ok:true only when
\* exactly one row of the table was inserted by it, and no step changes or
\* removes a row already in the table.
C3_InsertOnce ==
  /\ [](\A r \in Reqs :
          /\ Len(inserts[r]) <= 1
          /\ (resp[r].status = 200 \/ resp[r].ok) =>
               (resp[r].status = 200 /\ resp[r].ok /\ Cardinality(RowsBy(r)) = 1))
  /\ [][Len(db') >= Len(db) /\ SubSeq(db', 1, Len(db)) = db]_vars

\* an invocation was answered 200 after its insert
C3_Witness ==
  \E r \in Reqs : resp[r].status = 200 /\ Len(inserts[r]) = 1 /\ dbError[r].kind = "null"

\* C4: sendAftercareEmail is called at most once per invocation; it is called
\* only when send_aftercare is true, the email is present, the insert of that
\* invocation succeeded and no upload of it failed; and it is called once the
\* insert succeeded with send_aftercare true and the email present.
C4_NotifyOnceAfterInsert ==
  \A r \in Reqs :
    /\ Len(notified[r]) <= 1
    /\ notified[r] # <<>> =>
         /\ dbError[r].kind = "null"
         /\ RowsBy(r) # {}
         /\ Truthy(req[r].send_aftercare)
         /\ Truthy(req[r].email)
         /\ ~MissingRequired(req[r])
         /\ ~UploadFailed(r)
    /\ (dbError[r].kind = "null" /\ Truthy(req[r].send_aftercare) /\ Truthy(req[r].email))
         => Len(notified[r]) = 1

\* C5: when the request to the email API failed (non-success status, or the
\* call threw), the invocation still answers 200 ok:true with the waiver_id of
\* the row it inserted.
C5_NotifyFailureIsSilent ==
  \A r \in Reqs :
    (pc[r] = "done" /\ \E i \in 1..Len(mails[r]) : mails[r][i].st \in {"status", "threw"})
    => /\ resp[r].status = 200
       /\ resp[r].ok
       /\ resp[r].waiver_id = wid[r]
       /\ \E i \in RowsBy(r) : db[i].row.waiver_id = resp[r].waiver_id

\* C6: when an upload of an invocation failed (rejected promise or error
\* result), the invocation calls no insert, stores no row, sends no
\* notification, and its response is a failure.
C6_UploadFailureAborts ==
  \A r \in Reqs :
    UploadFailed(r)
    => /\ inserts[r] = <<>>
       /\ RowsBy(r) = {}
       /\ notified[r] = <<>>
       /\ pc[r] = "done" => ~resp[r].ok

\* C7: when insert returned an error, the invocation answers 500 with ok:false
\* and the error's message, details and hint, has called insert once, has
\* called no notification, and every blob it uploaded is still stored.
C7_InsertFailure ==
  \A r \in Reqs :
    dbError[r].kind = "error"
    => /\ pc[r] = "done"
       /\ resp[r].status = 500
       /\ resp[r].ok = FALSE
       /\ resp[r].error = dbError[r].message
       /\ resp[r].details = dbError[r].details
       /\ resp[r].hint = dbError[r].hint
       /\ Len(inserts[r]) = 1
       /\ RowsBy(r) = {}
       /\ notified[r] = <<>>
       /\ mails[r] = <<>>
       /\ \A i \in 1..Len(uploads[r]) :
            uploads[r][i].st = "ok" =>
              \E o \in blobs : o.path = uploads[r][i].path /\ o.bytes = uploads[r][i].bytes

\* the insert of a request that uploaded a blob and asked for the aftercare
\* email returned an error
C7_Witness ==
  \E r \in Reqs :
    /\ dbError[r].kind = "error"
    /\ \E i \in 1..Len(uploads[r]) : uploads[r][i].st = "ok"
    /\ WantsAftercare(req[r])
    /\ resp[r].hint = "check policy"

\* the value of an attachment field that the handler is to treat as not
\* provided: absent, not a data URL, a data URL without comma (so without
\* base64 part), or with invalid base64
NotProvided(v) ==
  \/ ~Truthy(v)
  \/ v.t # "str"
  \/ ~StartsWith(v.s, DataPrefix)
  \/ IndexOf(v.s, ",") = -1
  \/ atob(SplitSecond(v.s, ",")).threw

\* C8: for a request with its required fields, an attachment field that is
\* absent or malformed gets no upload, and does not make the request fail: the
\* invocation goes on to the insert unless an upload was rejected.
C8_MalformedAttachmentIgnored ==
  \A r \in Reqs :
    (pc[r] # "idle" /\ req[r].json = "object" /\ ~MissingRequired(req[r]))
    => /\ NotProvided(req[r].signature_png) =>
            \A i \in 1..Len(uploads[r]) :
              uploads[r][i].path # WaiversDir \o ToStr(wid[r]) \o SignatureFile
       /\ NotProvided(req[r].id_photo_front) =>
            \A i \in 1..Len(uploads[r]) :
              ~StartsWith(uploads[r][i].path, WaiversDir \o ToStr(wid[r]) \o IdFrontFile)
       /\ ( /\ NotProvided(req[r].signature_png) \/ NotProvided(req[r].id_photo_front)
            /\ pc[r] = "done"
            /\ inserts[r] = <<>> )
          => \E i \in 1..Len(uploads[r]) : uploads[r][i].st = "rejected"

\* a path field of a row of invocation r: null, or a path at which r completed
\* a successful upload
StoredPath(v, r) ==
  \/ v = JsNull
  \/ \E i \in 1..Len(uploads[r]) : uploads[r][i].st = "ok" /\ v = JsStr(uploads[r][i].path)

\* C9: in every inserted row, signature_path and id_photo_front_path are null
\* or a path at which the same invocation completed a successful upload, and
\* no field of the row is a data URL.
C9_RowHoldsOnlyPaths ==
  \A i \in 1..Len(db) :
    /\ StoredPath(db[i].row.signature_path, db[i].by)
    /\ StoredPath(db[i].row.id_photo_front_path, db[i].by)
    /\ \A f \in DOMAIN db[i].row : ~IsDataUrl(db[i].row[f])

(***************************************************************************)
(* Properties of the signature pad                                         *)
(***************************************************************************)
NonZero(seg) == seg[1] # seg[2]

\* C10: hasAnyInk is false on a surface initialized by resize() or wiped by
\* clear() with no stroke drawn since, and true once a stroke of non-zero
\* length has been drawn on it.
C10_InkDetection ==
  mounted =>
    /\ segs = <<>> => ~hasAnyInk(cw, ch, base, ink)
    /\ (\E i \in 1..Len(segs) : NonZero(segs[i])) => hasAnyInk(cw, ch, base, ink)

\* the uploads of invocation r that storage has not answered yet
Pending(r) == {i \in 1..Len(uploads[r]) : uploads[r][i].st = "pending"}

\* C13: an invocation issues at most two uploads, to distinct paths; all of
\* them are issued before the handler awaits any of them (none is added, and
\* none changes its path or bytes, once the handler has left its synchronous
\* prefix), and the insert is issued only when none of them is still pending.
C13_UploadsThenInsert ==
  /\ [](\A r \in Reqs :
          /\ Len(uploads[r]) <= 2
          /\ \A i, j \in 1..Len(uploads[r]) :
               i # j => uploads[r][i].path # uploads[r][j].path
          /\ inserts[r] # <<>> => Pending(r) = {})
  /\ [][\A r \in Reqs :
          /\ pc[r] # "idle" =>
               /\ Len(uploads'[r]) = Len(uploads[r])
               /\ \A i \in 1..Len(uploads[r]) :
                    /\ uploads'[r][i].path = uploads[r][i].path
                    /\ uploads'[r][i].bytes = uploads[r][i].bytes
          /\ Len(inserts'[r]) > Len(inserts[r]) => Pending(r) = {}]_vars

\* two uploads were issued, both have been answered and the insert was issued
C13_Witness ==
  /\ Len(uploads[1]) = 2
  /\ Pending(1) = {}
  /\ inserts[1] # <<>>

\* an exception reached the catch block of invocation r
Excepted(r) == \E i \in 1..Len(log[r]) : log[r][i] = "Handler exception"

\* C16: every invocation ends, with one response that is never replaced, and
\* that response is 200 {ok: true, waiver_id}, or 400 {ok: false, error} for a
\* missing required field, or 500 {ok: false, error, details, hint} for an
\* error returned by the insert, or 500 {ok: false, error: "Server error"}
\* exactly when an exception was thrown in the handler; an unparsable body is
\* answered with the last form.
C16_OneResponse ==
  /\ [](\A r \in Reqs :
          /\ pc[r] = "done" <=> resp[r] # NoResponse
          /\ pc[r] = "done" =>
               \/ /\ resp[r] = OkResponse(wid[r])
                  /\ dbError[r] = NullError
                  /\ ~Excepted(r)
               \/ /\ resp[r] = MissingResponse
                  /\ MissingRequired(body[r])
                  /\ ~Excepted(r)
               \/ /\ dbError[r].kind = "error"
                  /\ resp[r] = [status |-> 500, ok |-> FALSE, error |-> dbError[r].message,
                                details |-> dbError[r].details, hint |-> dbError[r].hint,
                                waiver_id |-> JsUndef]
                  /\ ~Excepted(r)
               \/ /\ resp[r] = ServerErrorResponse
                  /\ Excepted(r)
          /\ (pc[r] # "idle" /\ req[r].json = "invalid") => resp[r] = ServerErrorResponse)
  /\ [][\A r \in Reqs : resp[r] # NoResponse => resp'[r] = resp[r]]_vars
  /\ \A r \in {1} : (pc[r] # "idle") ~> (pc[r] = "done")

\* an unparsable body has been answered 500 "Server error"
C16_Witness ==
  /\ pc[1] = "done"
  /\ req[1].json = "invalid"
  /\ resp[1] = ServerErrorResponse

\* C17: a segment is drawn only by a pointermove delivered while the pointer
\* is pressed, it runs from the previous sample point of the stroke to the
\* point of that event, and a pointermove delivered while the pointer is not
\* pressed leaves the whole widget as it was.
C17_SegmentsOnlyWhilePressed ==
  [][/\ (Len(segs') > Len(segs) \/ ~(ink' \subseteq ink)) =>
          /\ evt' = "move"
          /\ pressed
          /\ segs' = Append(segs, <<sample, sample'>>)
          /\ ink' = ink \cup StrokePixels(sample, sample', cw, ch, dpr)
     /\ (evt' = "move" /\ ~pressed) => widget' = widget]_vars

\* two segments of one stroke have been drawn, then the pointer was lifted and
\* moved again
C17_Witness ==
  /\ Len(segs) = 2
  /\ segs[1][2] = segs[2][1]
  /\ ~pressed
  /\ evt = "move"

\* C15: a file encoded by fileToDataURL and decoded by dataUrlToBytes gives
\* back its bytes and its type, and encoding the decoded bytes and type again
\* gives the same string.
C15_RoundTrip ==
  /\ (codecPc \in {"decoded", "retagged"} /\ idFile.present) =>
       /\ decoded.kind = "value"
       /\ decoded.bytes = idFile.bytes
       /\ decoded.mime = idFile.type
  /\ codecPc = "retagged" => retagged = tagged

\* a JPEG of two bytes, whose encoding is padded, has gone all the way
C15_Witness ==
  /\ codecPc = "retagged"
  /\ idFile = File(MimeJpeg, <<255, 0>>)
  /\ tagged = JsStr(DataPrefix \o MimeJpeg \o B64Tag \o <<",", "/", "w", "A", "=">>)

\* the form as handleSubmit wants it
Complete ==
  /\ clientName # <<>>
  /\ email # <<>>
  /\ \A i \in 1..NumConsents : consents[i]
  /\ hasAnyInk(cw, ch, base, ink)

\* C11: a submit event leads to a POST only if, when it is handled, name and
\* email are not empty, every consent item is ticked and hasAnyInk returns
\* true; otherwise it raises one alert, sends nothing and leaves the
\* submitting flag unset.
C11_SubmitGuard ==
  /\ [][attempts' # attempts =>
          IF Complete
          THEN /\ submitting'
               /\ alerts' = alerts
               /\ draft'.name = clientName /\ draft'.mail = email /\ draft'.acks = consents
          ELSE /\ Len(alerts') = Len(alerts) + 1
               /\ ~submitting /\ ~submitting'
               /\ cpc' = "form"
               /\ posts' = posts]_vars
  /\ [][posts' # posts =>
          /\ submitting
          /\ attempts' = attempts
          /\ posts' = Append(posts, posts'[Len(posts')])
          /\ posts'[Len(posts')].client_name = draft.name
          /\ posts'[Len(posts')].email = draft.mail
          /\ posts'[Len(posts')].acks = draft.acks]_vars
  /\ [](submitting =>
          /\ draft.name # <<>>
          /\ draft.mail # <<>>
          /\ \A i \in 1..NumConsents : draft.acks[i])
  /\ [](Len(posts) + Len(alerts) <= attempts)

\* on one page a submit was turned down for the missing signature, and after
\* the box got a width another one was sent
C11_Witness ==
  /\ alerts = <<"Please sign in the signature box.">>
  /\ Len(posts) = 1
  /\ attempts = 2

\* the submit events that passed the checks of handleSubmit
Accepted == attempts - Len(alerts)

\* what the end of a handleSubmit leaves behind: the message for the way the
\* awaited call ended, the flag reset, nothing sent again, the form as it was
HandledOnce ==
  /\ [][posts' # posts => cpc = "encoding" /\ posts' = Append(posts, posts'[Len(posts')])]_vars
  /\ [][(cpc # "form" /\ cpc' = "form") =>
          /\ posts' = posts
          /\ ~submitting'
          /\ got'.kind \in {"file", "fetch"} => result' = NetworkError
          /\ (got'.kind = "response" /\ (~got'.ok \/ ~got'.jsonOk)) => result' = SavingFailed
          /\ (got'.kind # "response" \/ ~got'.ok \/ ~got'.jsonOk) =>
               /\ fields' = fields
               /\ widget' = widget]_vars

\* C12 as stated: every accepted submit whose handler has ended has sent
\* exactly one POST; a failed one sets a generic message, resets the
\* submitting flag and leaves the form and the signature as they were.
C12_ExactlyOnePost ==
  /\ HandledOnce
  /\ [](cpc = "form" => Len(posts) = Accepted)

\* C12, amended: an accepted submit sends at most one POST, exactly one once
\* the ID photo has been read, and none when reading it fails; in that case
\* and when the request fails the generic message is set, the submitting
\* flag is reset and the form and the signature are left as they were.
C12_AtMostOnePost ==
  /\ HandledOnce
  /\ [](Len(posts) <= Accepted)
  /\ [][(cpc = "encoding" /\ cpc' # "encoding") =>
          \/ Len(posts') = Len(posts) + 1 /\ cpc' = "fetching"
          \/ /\ got'.kind = "file"
             /\ draft.file.present
             /\ cpc' = "form"]_vars

\* a request failed, the flag is reset and the form is as it was sent; the
\* user has submitted it again
C12_Witness ==
  /\ Len(posts) = 2
  /\ posts[1].client_name = posts[2].client_name
  /\ cpc = "form"
  /\ result = SavingFailed
  /\ ~submitting

\* the rows of the table that carry waiver_id w
RowsOf(w) == {i \in 1..Len(db) : db[i].row.waiver_id = w}

\* the bytes stored at a path, as a set: empty when no object is there
BytesAt(path) == {o.bytes : o \in {x \in blobs : x.path = path}}

\* C14: when two invocations with the same waiver_id have both answered 200,
\* the table holds two rows with that waiver_id; and where both uploaded
\* different bytes to the same path, the object at that path holds the bytes
\* of the upload that storage answered later.
C14_LaterUploadWins ==
  ( /\ resp[1].status = 200
    /\ resp[2].status = 200
    /\ wid[1] = wid[2] )
  => /\ Cardinality(RowsOf(wid[1])) = 2
     /\ \A i \in 1..Len(uploads[1]), j \in 1..Len(uploads[2]) :
          ( /\ uploads[1][i].path = uploads[2][j].path
            /\ uploads[1][i].bytes # uploads[2][j].bytes )
          => BytesAt(uploads[1][i].path)
               = { IF uploads[1][i].at > uploads[2][j].at
                   THEN uploads[1][i].bytes ELSE uploads[2][j].bytes }

\* the uploads of invocation r that storage took
Stored(r) == {i \in 1..Len(uploads[r]) : uploads[r][i].st = "ok"}

\* C18: when the two invocations carry different waiver_ids, each object in
\* the bucket was written by one invocation and holds the bytes it sent, each
\* row carries the waiver_id and the paths of the invocation that inserted it,
\* a 200 response names the waiver_id of its own request, and the object at
\* each attachment path of a row holds the bytes that invocation uploaded.
C18_Isolation ==
  (pc[1] # "idle" /\ pc[2] # "idle" /\ wid[1] # wid[2]) =>
    /\ \A o \in blobs : \E r \in Reqs : \E i \in Stored(r) :
         /\ o.path = uploads[r][i].path
         /\ o.bytes = uploads[r][i].bytes
         /\ \A q \in Reqs \ {r} : \A j \in 1..Len(uploads[q]) : uploads[q][j].path # o.path
    /\ \A r \in Reqs :
         /\ Cardinality(RowsBy(r)) <= 1
         /\ resp[r].status = 200 => resp[r].waiver_id = req[r].waiver_id
         /\ \A k \in 1..Len(db) : db[k].by = r =>
              /\ db[k].row.waiver_id = req[r].waiver_id
              /\ db[k].row.signature_path = JsStr(SigPath(wid[r]))
              /\ \A i \in 1..Len(uploads[r]) :
                   BytesAt(uploads[r][i].path) = {uploads[r][i].bytes}

====
